---------------------------- MODULE Spec2Model ----------------------------
(***************************************************************************)
(* Payroll run processing engine of payrollx-server:                       *)
(*   src/src/services/payroll.service.js  (createPayrollRun,               *)
(*       processPayroll, approvePayroll, calculateWorkingDays,             *)
(*       getEmployeeAttendance)                                            *)
(*   src/src/utils/taxCalculator.js       (tax and deduction calculator)   *)
(*   src/src/services/employee.service.js (employee status changes)        *)
(*   the payroll_runs / payslips / salary_structures migrations            *)
(*                                                                         *)
(* The relational store is PostgreSQL at its default isolation level       *)
(* (READ COMMITTED): db.query() is one auto-committed statement,           *)
(* db.getClient() + BEGIN ... COMMIT/ROLLBACK is one transaction whose     *)
(* writes are private until COMMIT.  An UPDATE or DELETE waits for the row *)
(* lock of a row another open transaction has written.                     *)
(*                                                                         *)
(* Money is counted in paisa (1/100 rupee), the resolution of the          *)
(* DECIMAL(15,2) columns; Math.round results are whole rupees.             *)
(***************************************************************************)
EXTENDS Integers, Sequences, FiniteSets, TLC

\* ------------------------------------------------------------------ bounds

\* Concurrent request slots (each runs one service call at a time).
NumCalls == 2
\* Employees in the employees table.
NumEmployees == 3
\* Payroll periods (months of one year) requests may name.
NumPeriods == 1
\* Status changes the employee service makes while the engine runs.
MaxEmployeeUpdates == 1
\* Payroll periods requests may name when the calls do not overlap.
NumSeqPeriods == 2
\* Whole rupees above each sampled amount the calculator is asked about.
MaxOffset == 20

Calls == 1..NumCalls
Employees == 1..NumEmployees
Periods == 1..NumPeriods
\* Run ids a request may name: one per period that can exist.
RunIds == 1..NumPeriods
\* Periods, and with them run ids, of the requests that do not overlap.
SeqPeriods == 1..NumSeqPeriods

\* ------------------------------------------------- taxCalculator.js (pure)

\* Slabs: min/max in rupees, rate4 = 4 * rate (every rate is a multiple of
\* 0.25 %), fixed in rupees.  max = -1 stands for Infinity.
\* The filer table with the third fixed amount too low.
TAX_SLABS_FILER_low_fixed ==
  << [min |-> 0,       max |-> 600000,  rate4 |-> 0,   fixed |-> 0],
     [min |-> 600001,  max |-> 1200000, rate4 |-> 10,  fixed |-> 0],
     [min |-> 1200001, max |-> 2200000, rate4 |-> 50,  fixed |-> 1500],
     [min |-> 2200001, max |-> 3200000, rate4 |-> 90,  fixed |-> 140000],
     [min |-> 3200001, max |-> 4100000, rate4 |-> 110, fixed |-> 365000],
     [min |-> 4100001, max |-> -1,      rate4 |-> 140, fixed |-> 612500] >>

TAX_SLABS_FILER ==
  << [min |-> 0,       max |-> 600000,  rate4 |-> 0,   fixed |-> 0],
     [min |-> 600001,  max |-> 1200000, rate4 |-> 10,  fixed |-> 0],
     [min |-> 1200001, max |-> 2200000, rate4 |-> 50,  fixed |-> 15000],
     [min |-> 2200001, max |-> 3200000, rate4 |-> 90,  fixed |-> 140000],
     [min |-> 3200001, max |-> 4100000, rate4 |-> 110, fixed |-> 365000],
     [min |-> 4100001, max |-> -1,      rate4 |-> 140, fixed |-> 612500] >>

\* The non-filer table with the third rate mistyped (1.375 for 13.75).
TAX_SLABS_NON_FILER_typo ==
  << [min |-> 0,       max |-> 600000,  rate4 |-> 0,   fixed |-> 0],
     [min |-> 600001,  max |-> 1200000, rate4 |-> 11,  fixed |-> 0],
     [min |-> 1200001, max |-> 2200000, rate4 |-> 5,   fixed |-> 16500],
     [min |-> 2200001, max |-> 3200000, rate4 |-> 99,  fixed |-> 154000],
     [min |-> 3200001, max |-> 4100000, rate4 |-> 121, fixed |-> 401500],
     [min |-> 4100001, max |-> -1,      rate4 |-> 154, fixed |-> 673750] >>

TAX_SLABS_NON_FILER ==
  << [min |-> 0,       max |-> 600000,  rate4 |-> 0,   fixed |-> 0],
     [min |-> 600001,  max |-> 1200000, rate4 |-> 11,  fixed |-> 0],
     [min |-> 1200001, max |-> 2200000, rate4 |-> 55,  fixed |-> 16500],
     [min |-> 2200001, max |-> 3200000, rate4 |-> 99,  fixed |-> 154000],
     [min |-> 3200001, max |-> 4100000, rate4 |-> 121, fixed |-> 401500],
     [min |-> 4100001, max |-> -1,      rate4 |-> 154, fixed |-> 673750] >>

\* The slab test with an exclusive upper end.
InSlab_exclusive(incomeP, slab) ==
  /\ incomeP >= slab.min * 100
  /\ (slab.max = -1 \/ incomeP < slab.max * 100)

\* `annualIncome >= slab.min && annualIncome <= slab.max`, income in paisa.
InSlab(incomeP, slab) ==
  /\ incomeP >= slab.min * 100
  /\ (slab.max = -1 \/ incomeP <= slab.max * 100)

\* Index of the first slab the for-loop matches, 0 when it matches none.
ApplicableSlab(incomeP, slabs) ==
  IF \E k \in 1..Len(slabs) : InSlab(incomeP, slabs[k])
  THEN CHOOSE k \in 1..Len(slabs) :
         /\ InSlab(incomeP, slabs[k])
         /\ \A j \in 1..(k - 1) : ~InSlab(incomeP, slabs[j])
  ELSE 0

\* The unrounded `tax` of calculateAnnualTax as whole + num/40000 rupees:
\* tax = fixed + taxableAmount * rate / 100, taxableAmount = income - min + 1.
\* t is the taxable amount in paisa, k the index of the applicable slab.
TaxOnSlab(t, slab, k) ==
  [slab |-> k,
   whole |-> slab.fixed + (((t \div 100) * slab.rate4) \div 400),
   num |-> 100 * (((t \div 100) * slab.rate4) % 400) + (t % 100) * slab.rate4]

RawTaxAt(incomeP, slabs, k) ==
  IF k = 0 \/ slabs[k].rate4 = 0
  THEN [slab |-> k, whole |-> 0, num |-> 0]
  ELSE TaxOnSlab(incomeP - slabs[k].min * 100 + 100, slabs[k], k)

\* (Here and below an intermediate result is bound through a one-element
\* set, so that it is computed once however often it is used.)
RawTaxIn(incomeP, slabs) ==
  CHOOSE r \in {RawTaxAt(incomeP, slabs, k) :
                  k \in {ApplicableSlab(incomeP, slabs)}} : TRUE

RawTax(incomeP, isFiler) ==
  RawTaxIn(incomeP, IF isFiler THEN TAX_SLABS_FILER ELSE TAX_SLABS_NON_FILER)

\* The result with the monthly tax taken from the rounded annual tax.
RoundedTax_annual_first(r) ==
  [annualTax |-> r.whole + ((2 * r.num + 40000) \div 80000),
   monthlyTax |-> (2 * (r.whole + ((2 * r.num + 40000) \div 80000)) + 12)
                    \div 24,
   slab |-> r.slab]

\* calculateAnnualTax: annualTax = Math.round(tax), monthlyTax =
\* Math.round(tax / 12), slab = 0 for the 'Exempt' fallback.
RoundedTax(r) ==
  [annualTax |-> r.whole + ((2 * r.num + 40000) \div 80000),
   monthlyTax |-> (r.whole \div 12)
                    + ((2 * (40000 * (r.whole % 12) + r.num) + 480000)
                         \div 960000),
   slab |-> r.slab]

calculateAnnualTax(incomeP, isFiler) ==
  CHOOSE t \in {RoundedTax(r) : r \in {RawTax(incomeP, isFiler)}} : TRUE

\* calculateMonthlyTax: annualIncome = monthlyGross * 12.
MonthlyTaxResult(result) ==
  [monthlyTax |-> result.monthlyTax,
   annualProjection |-> result.annualTax,
   slab |-> result.slab]

calculateMonthlyTax(monthlyGrossP, isFiler) ==
  CHOOSE t \in {MonthlyTaxResult(result) :
                  result \in {calculateAnnualTax(monthlyGrossP * 12, isFiler)}}
    : TRUE

\* Math.round(x * permille10 / 10000) for x in paisa, result in rupees:
\* round-half-up of (grossP / 100) * (permille10 / 10000).
RoundShare(grossP, permille10) ==
  permille10 * (grossP \div 1000000)
    + ((2 * permille10 * (grossP % 1000000) + 1000000) \div 2000000)

\* EOBI with the employer share as what is left of 0.75 % of gross.
calculateEOBI_residual(grossP) ==
  [employer |-> RoundShare(grossP, 75) - RoundShare(grossP, 15),
   employee |-> RoundShare(grossP, 15),
   total |-> RoundShare(grossP, 75)]

\* calculateEOBI: employer round(gross * 0.0075), employee round(gross * 0.0015).
calculateEOBI(grossP) ==
  [employer |-> RoundShare(grossP, 75),
   employee |-> RoundShare(grossP, 15),
   total |-> RoundShare(grossP, 75) + RoundShare(grossP, 15)]

\* calculateSESSI: round(min(gross, 25000) * 0.0075), employer only.
SESSIResult(contribution) ==
  [employer |-> contribution, employee |-> 0, total |-> contribution]

\* SESSI on the whole gross, without the wage limit.
calculateSESSI_uncapped(grossP) == SESSIResult(RoundShare(grossP, 75))

calculateSESSI(grossP) ==
  SESSIResult(RoundShare(IF grossP < 2500000 THEN grossP ELSE 2500000, 75))

\* The deductions with the two supplemental ones left out of the total.
AllDeductions_statutory_only(grossP, tax, eobi, sessi, loanDeduction, otherDeductions) ==
  [incomeTax |-> tax.monthlyTax * 100,
   taxSlab |-> tax.slab,
   eobi |-> eobi.employee * 100,
   sessi |-> sessi.employee * 100,
   loanDeduction |-> loanDeduction,
   otherDeductions |-> otherDeductions,
   totalDeductions |-> tax.monthlyTax * 100 + eobi.employee * 100,
   netSalary |-> grossP - (tax.monthlyTax * 100 + eobi.employee * 100),
   employerContributions |->
     [eobi |-> eobi.employer * 100, sessi |-> sessi.employer * 100]]

\* calculateAllDeductions; money results in paisa, incomeTax and eobi are
\* whole rupees times 100.
AllDeductions(grossP, tax, eobi, sessi, loanDeduction, otherDeductions) ==
  [incomeTax |-> tax.monthlyTax * 100,
   taxSlab |-> tax.slab,
   eobi |-> eobi.employee * 100,
   sessi |-> sessi.employee * 100,
   loanDeduction |-> loanDeduction,
   otherDeductions |-> otherDeductions,
   totalDeductions |-> tax.monthlyTax * 100 + eobi.employee * 100
                         + loanDeduction + otherDeductions,
   netSalary |-> grossP - (tax.monthlyTax * 100 + eobi.employee * 100
                             + loanDeduction + otherDeductions),
   employerContributions |->
     [eobi |-> eobi.employer * 100, sessi |-> sessi.employer * 100]]

calculateAllDeductions(grossP, isFiler, loanDeduction, otherDeductions) ==
  CHOOSE d \in {AllDeductions(grossP, tax, eobi, sessi,
                              loanDeduction, otherDeductions) :
                  tax \in {calculateMonthlyTax(grossP, isFiler)},
                  eobi \in {calculateEOBI(grossP)},
                  sessi \in {calculateSESSI(grossP)}} : TRUE

\* ------------------------------------------- calendar (calculateWorkingDays)

IsLeap(year) == (year % 4 = 0 /\ year % 100 # 0) \/ year % 400 = 0

\* new Date(year, month, 0).getDate(): the last day of the month.
DaysInMonth(month, year) ==
  IF month = 2 THEN (IF IsLeap(year) THEN 29 ELSE 28)
  ELSE IF month \in {4, 6, 9, 11} THEN 30 ELSE 31

\* Date.prototype.getDay(): 0 = Sunday .. 6 = Saturday.
GetDay(year, month, day) ==
  LET t == <<0, 3, 2, 5, 0, 3, 5, 1, 4, 6, 2, 4>>
      y == IF month < 3 THEN year - 1 ELSE year
  IN  (y + (y \div 4) - (y \div 100) + (y \div 400) + t[month] + day) % 7

\* Hours the server's local time is ahead of UTC (the TZ of the node
\* process): behind, equal (a server kept on UTC) and ahead (Asia/Karachi).
UtcOffsets == {-5, 0, 5}

\* date.toISOString().split('T')[0] for local midnight of a day: the UTC
\* calendar date, which is the day before where local time is ahead of UTC.
\* Days are counted within the month: 0 is the last day of the month before.
ISODate(day, utcOffset) == IF utcOffset > 0 THEN day - 1 ELSE day

\* calculateWorkingDays, the SELECT and the Set built from it.  holidays are
\* the public_holidays dates as days counted within the month; the SELECT
\* keeps those between the ISO dates of the first and the last day; a DATE
\* column comes back as local midnight and is put in the set as its ISO
\* date.
HolidayDates(month, year, holidays, utcOffset) ==
  {ISODate(h, utcOffset) :
     h \in {x \in holidays :
              /\ x >= ISODate(1, utcOffset)
              /\ x <= ISODate(DaysInMonth(month, year), utcOffset)}}

\* calculateWorkingDays, the loop: the days that are no Saturday, no Sunday
\* and whose ISO date is not in the set.
CountWorkingDays(month, year, dates, utcOffset) ==
  Cardinality({d \in 1..DaysInMonth(month, year) :
                 /\ GetDay(year, month, d) # 0
                 /\ GetDay(year, month, d) # 6
                 /\ ISODate(d, utcOffset) \notin dates})

calculateWorkingDays(month, year, holidays, utcOffset) ==
  CHOOSE n \in
    {CountWorkingDays(month, year, dates, utcOffset) :
       dates \in {HolidayDates(month, year, holidays, utcOffset)}} : TRUE

\* ------------------------------------------------------------ stored data

\* (month, year) of period k: April 2024 onward (April has 30 days, 8 of
\* them Saturdays and Sundays).
Period(k) == [month |-> k + 3, year |-> 2024]

\* public_holidays rows, as (month, day) of that year (read-only here):
\* Wednesday 10 April and Wednesday 1 May.
public_holidays == {[month |-> 4, day |-> 10], [month |-> 5, day |-> 1]}

\* The current salary structure an employee was created with
\* (createEmployee with basicSalary): gross_salary, loan_deduction and
\* other_deductions in paisa, and the employee's tax_filing_status.
SalaryOf(e) ==
  IF e % 2 = 1
  THEN [gross_salary |-> 15000000, loan_deduction |-> 500000,
        other_deductions |-> 0, tax_filing_status |-> "filer"]
  ELSE [gross_salary |-> 10000000, loan_deduction |-> 0,
        other_deductions |-> 200000, tax_filing_status |-> "non_filer"]

\* attendance rows of an employee in a period (read-only here): status and
\* overtime_hours per recorded day.
attendance(e, month) ==
  IF e % 2 = 1
  THEN << [status |-> "present", overtime_hours |-> 4],
          [status |-> "late", overtime_hours |-> 6],
          [status |-> "on_leave", overtime_hours |-> 0] >>
  ELSE << [status |-> "present", overtime_hours |-> 0],
          [status |-> "absent", overtime_hours |-> 0] >>

EmployeeStatuses == {"active", "inactive", "terminated", "on_leave"}
RunStatuses ==
  {"draft", "processing", "completed", "approved", "paid", "cancelled"}

VARIABLES
  payroll_runs,       \* committed rows of table payroll_runs
  payslips,           \* committed rows of table payslips
  employees,          \* employees.status per employee
  salary_structures,  \* employees that have a row with is_current = true
  updates,            \* status changes made by the employee service so far
  op,                 \* per request slot: the service call in progress
  pc,                 \* per request slot: the next statement of the call
  arg,                \* per request slot: the run id (or period) of the call
  tx,                 \* per request slot: uncommitted writes and locals
  response            \* what the last finished call returned or threw

vars == <<payroll_runs, payslips, employees, salary_structures, updates,
          op, pc, arg, tx, response>>

db == <<payroll_runs, payslips>>

NoTx ==
  [status |-> "none", employees |-> <<>>, workingDays |-> 0, i |-> 0,
   deleted |-> {}, inserted |-> {}, target |-> {},
   totalGross |-> 0, totalDeductions |-> 0, totalTax |-> 0, totalNet |-> 0]

\* response.at is the statement at which the call ended (the arguments of
\* the call, for a function of the calculator called on its own).
NoResponse == [op |-> "none", result |-> "none", at |-> "none"]

\* ----------------------------------------------------- store: rows and waits

RunById(id) == CHOOSE r \in payroll_runs : r.id = id
RunExists(id) == \E r \in payroll_runs : r.id = id
RunsOfPeriod(k) ==
  {r \in payroll_runs : r.month = Period(k).month /\ r.year = Period(k).year}

PayslipsOfRun(rows, id) == {p \in rows : p.payroll_run_id = id}

\* A transaction is open from BEGIN to COMMIT/ROLLBACK.
TxOpen(c) == op[c] = "process" /\ pc[c] # "idle"

LockedBySelect_for_update(c, id) == {<<"run", id>>}

\* The row locks processPayroll's `SELECT * FROM payroll_runs WHERE id = $1`
\* takes: none, the statement has no FOR UPDATE.
LockedBySelect(c, id) == {}

\* What the open transaction of slot d has written and not yet committed:
\* the run row (status flip), the payslip rows it deleted, and the unique
\* index entries (run, employee) of the payslip rows it inserted; with them
\* the rows its SELECT locked.
WritesOf(d) ==
  IF ~TxOpen(d) THEN {}
  ELSE (IF tx[d].status # "none" THEN {<<"run", arg[d]>>} ELSE {})
       \cup LockedBySelect(d, arg[d])
       \cup {<<"payslip", p.id>> : p \in tx[d].deleted}
       \cup {<<"key", p.payroll_run_id, p.employee_id>> : p \in tx[d].inserted}

MustWait_never(c, resources) == FALSE

\* A statement of slot c that writes `resources` waits while another open
\* transaction holds an uncommitted write on one of them.
MustWait(c, resources) ==
  \E d \in Calls \ {c} : WritesOf(d) \cap resources # {}

\* The rows a statement of slot c sees: committed rows, minus its own
\* deletes, plus its own inserts.
Visible(c) == (payslips \ tx[c].deleted) \cup tx[c].inserted

\* A fresh payslip row id (gen_random_uuid()): the pair's first unused
\* copy number, so that no two rows, committed or not, share an id.
FreshPayslipId(run, emp) ==
  LET used == {p.id : p \in payslips}
                \cup UNION {{p.id : p \in tx[d].inserted} : d \in Calls}
  IN  <<run, emp, CHOOSE n \in 1..(Cardinality(used) + 1) :
                    /\ <<run, emp, n>> \notin used
                    /\ \A m \in 1..(n - 1) : <<run, emp, m>> \in used>>

idx_payslips_unique_off(rows, run, emp) == FALSE

\* idx_payslips_unique: an INSERT of (payroll_run_id, employee_id) is
\* rejected when a row with that pair exists.
idx_payslips_unique(rows, run, emp) ==
  \E p \in rows : p.payroll_run_id = run /\ p.employee_id = emp

idx_payroll_runs_unique_period_off(k) == FALSE

\* idx_payroll_runs_unique_period: an INSERT of (month, year) is rejected
\* when a run of that period exists.
idx_payroll_runs_unique_period(k) == RunsOfPeriod(k) # {}

\* --------------------------------------------------------------- Init

Init ==
  /\ payroll_runs = {}
  /\ payslips = {}
  /\ employees = [e \in Employees |-> "active"]
  /\ salary_structures = {e \in Employees : e % 3 # 0}
  /\ updates = 0
  /\ op = [c \in Calls |-> "idle"]
  /\ pc = [c \in Calls |-> "idle"]
  /\ arg = [c \in Calls |-> 0]
  /\ tx = [c \in Calls |-> NoTx]
  /\ response = NoResponse

\* A new request is served by the lowest free slot (slots are
\* interchangeable).
FreeSlot(c) ==
  /\ pc[c] = "idle"
  /\ \A d \in Calls : d < c => pc[d] # "idle"

\* A call ends: the slot is free again and the outcome is recorded.
Finish(c, result) ==
  /\ response' = [op |-> op[c], result |-> result, at |-> pc[c]]
  /\ op' = [op EXCEPT ![c] = "idle"]
  /\ pc' = [pc EXCEPT ![c] = "idle"]
  /\ arg' = [arg EXCEPT ![c] = 0]
  /\ tx' = [tx EXCEPT ![c] = NoTx]

Goto(c, next) ==
  /\ pc' = [pc EXCEPT ![c] = next]
  /\ response' = NoResponse

\* ------------------------------------------------------- createPayrollRun

\* The row INSERT INTO payroll_runs adds: status and totals take the column
\* defaults, processed_by is the caller.  The generated id is k for the
\* first run of period k.
NewRun(k, processedBy) ==
  [id |-> k + NumPeriods * Cardinality(RunsOfPeriod(k)),
   month |-> Period(k).month, year |-> Period(k).year,
   status |-> "draft",
   total_employees |-> 0, total_gross_salary |-> 0, total_deductions |-> 0,
   total_tax |-> 0, total_net_salary |-> 0,
   processed_by |-> processedBy, processed_at |-> FALSE,
   approved_by |-> "none", approved_at |-> FALSE]

CreateExisting_any(status) == "ok"

\* An existing run is returned when it is a draft and rejected otherwise.
CreateExisting(status) == IF status # "draft" THEN "BadRequest" ELSE "ok"

\* SELECT by (month, year): an existing run is returned if it is a draft and
\* rejected otherwise; with none, the call goes on to its INSERT.
CreateSelect(c, k) ==
  /\ FreeSlot(c)
  /\ UNCHANGED <<payroll_runs, payslips, employees, salary_structures, updates>>
  /\ IF RunsOfPeriod(k) # {}
     THEN LET existing == CHOOSE r \in RunsOfPeriod(k) : TRUE
          IN  /\ response' = [op |-> "create", at |-> "select",
                              result |-> CreateExisting(existing.status)]
              /\ UNCHANGED <<op, pc, arg, tx>>
     ELSE /\ op' = [op EXCEPT ![c] = "create"]
          /\ arg' = [arg EXCEPT ![c] = k]
          /\ Goto(c, "c_insert")
          /\ UNCHANGED tx

\* INSERT INTO payroll_runs: the unique index on (month, year) rejects a
\* second run of the period.
CreateInsert(c) ==
  /\ pc[c] = "c_insert"
  /\ UNCHANGED <<payslips, employees, salary_structures, updates>>
  /\ IF idx_payroll_runs_unique_period(arg[c])
     THEN /\ UNCHANGED payroll_runs
          /\ Finish(c, "conflict")
     ELSE /\ payroll_runs' = payroll_runs \cup {NewRun(arg[c], "admin")}
          /\ Finish(c, "ok")

\* ---------------------------------------------------------- processPayroll

ProcessGuard_not_processing(status) == status # "processing"

ProcessGuard_recovers(status) == status \in {"draft", "processing"}

\* `payrollRun.status !== 'draft'` throws; the guard passes for draft only.
ProcessGuard(status) == status = "draft"

\* BEGIN; SELECT the run; NotFound / BadRequest end the call via ROLLBACK.
ProcessSelect(c, id) ==
  /\ FreeSlot(c)
  /\ ~MustWait(c, LockedBySelect(c, id))
  /\ UNCHANGED <<payroll_runs, payslips, employees, salary_structures, updates>>
  /\ IF ~RunExists(id)
     THEN /\ response' = [op |-> "process", result |-> "NotFound", at |-> "select"]
          /\ UNCHANGED <<op, pc, arg, tx>>
     ELSE IF ~ProcessGuard(RunById(id).status)
     THEN /\ response' = [op |-> "process", result |-> "BadRequest", at |-> "select"]
          /\ UNCHANGED <<op, pc, arg, tx>>
     ELSE /\ op' = [op EXCEPT ![c] = "process"]
          /\ arg' = [arg EXCEPT ![c] = id]
          /\ Goto(c, "p_flip")
          /\ UNCHANGED tx


EligibleEmployees_any_status == salary_structures

\* employees e JOIN salary_structures ss ON ... ss.is_current = true
\* WHERE e.status = 'active'.
EligibleEmployees ==
  {e \in Employees : employees[e] = "active" /\ e \in salary_structures}

\* The employees a sequence of employee ids names.
Range(seq) == {seq[i] : i \in 1..Len(seq)}

\* The result rows of a query, in id order.
SetToSeq(S) ==
  [j \in 1..Cardinality(S) |->
     CHOOSE x \in S : Cardinality({y \in S : y < x}) = j - 1]

\* The holiday dates in and next to the period's month, as days counted
\* within the month (0: the last day of the month before; one more than the
\* month's days: the first day of the month after).
HolidaysIn(month, year) ==
  {h.day : h \in {x \in public_holidays : x.month = month}}
    \cup {0 : h \in {x \in public_holidays :
                       /\ x.month = month - 1
                       /\ x.day = DaysInMonth(month - 1, year)}}
    \cup {DaysInMonth(month, year) + 1 :
            h \in {x \in public_holidays : x.month = month + 1 /\ x.day = 1}}

\* UPDATE payroll_runs SET status = 'processing' (takes the run's row lock,
\* uncommitted), then the two reads that follow it: SELECT the eligible
\* employees, and calculateWorkingDays for the run's period.
ProcessFlip(c) ==
  /\ pc[c] = "p_flip"
  /\ ~MustWait(c, {<<"run", arg[c]>>})
  /\ \E run \in {RunById(arg[c])}, utcOffset \in UtcOffsets :
       tx' = [tx EXCEPT
               ![c].status = "processing",
               ![c].employees = SetToSeq(EligibleEmployees),
               ![c].workingDays =
                 calculateWorkingDays(run.month, run.year,
                                      HolidaysIn(run.month, run.year),
                                      utcOffset)]
  /\ Goto(c, "p_delete")
  /\ UNCHANGED <<payroll_runs, payslips, employees, salary_structures, updates, op, arg>>

DeleteNothing(c) == {}

DeletedRows_eligible(c) ==
  {p \in PayslipsOfRun(Visible(c), arg[c]) :
     p.employee_id \in Range(tx[c].employees)}

\* The rows DELETE FROM payslips WHERE payroll_run_id = $1 removes.
DeletedRows(c) == PayslipsOfRun(Visible(c), arg[c])

ProcessDelete(c) ==
  /\ pc[c] = "p_delete"
  /\ ~MustWait(c, {<<"payslip", p.id>> : p \in DeletedRows(c)})
  /\ tx' = [tx EXCEPT ![c].deleted = @ \cup (DeletedRows(c) \cap payslips),
                      ![c].inserted = @ \ DeletedRows(c),
                      ![c].i = 1]
  /\ Goto(c, IF Len(tx[c].employees) = 0 THEN "p_commit" ELSE "p_insert")
  /\ UNCHANGED <<payroll_runs, payslips, employees, salary_structures, updates, op, arg>>

\* SUM(COALESCE(overtime_hours, 0)) over the rows.
SumOvertime(rows) ==
  LET sum[n \in 0..Len(rows)] ==
        IF n = 0 THEN 0 ELSE sum[n - 1] + rows[n].overtime_hours
  IN  sum[Len(rows)]

\* getEmployeeAttendance: counts by status and the summed overtime hours.
AttendanceSummary(rows) ==
  [presentDays |->
     Cardinality({j \in 1..Len(rows) : rows[j].status \in {"present", "late"}}),
   absentDays |->
     Cardinality({j \in 1..Len(rows) : rows[j].status = "absent"}),
   leaveDays |->
     Cardinality({j \in 1..Len(rows) : rows[j].status = "on_leave"}),
   overtimeHours |-> SumOvertime(rows)]

getEmployeeAttendance(e, month) == AttendanceSummary(attendance(e, month))

\* Overtime paid at the plain hourly rate.
OvertimePay_plain_rate(overtimeHours, grossP, workingDays) ==
  (4 * overtimeHours * grossP + 1600 * workingDays) \div (3200 * workingDays)

\* Math.round(overtimeHours * (grossSalary / (workingDays * 8)) * 1.5), in
\* whole rupees, for a gross in paisa.
OvertimePay(overtimeHours, grossP, workingDays) ==
  (6 * overtimeHours * grossP + 1600 * workingDays) \div (3200 * workingDays)

\* The payslip row the loop body inserts for one employee.
\* The INSERT's values: finalGross = grossSalary + overtimePay and
\* netSalary = finalGross - deductions.totalDeductions.
PayslipValues(id, run, e, workingDays, emp, attendanceSummary, deductions, overtimePay) ==
  [id |-> id, payroll_run_id |-> run.id, employee_id |-> e,
   working_days |-> workingDays,
   present_days |-> attendanceSummary.presentDays,
   absent_days |-> attendanceSummary.absentDays,
   leave_days |-> attendanceSummary.leaveDays,
   overtime_hours |-> attendanceSummary.overtimeHours,
   overtime_pay |-> overtimePay * 100,
   gross_salary |-> emp.gross_salary + overtimePay * 100,
   income_tax |-> deductions.incomeTax,
   eobi_contribution |-> deductions.eobi,
   sessi_contribution |-> deductions.sessi,
   loan_deduction |-> deductions.loanDeduction,
   other_deductions |-> deductions.otherDeductions,
   total_deductions |-> deductions.totalDeductions,
   net_salary |-> emp.gross_salary + overtimePay * 100
                    - deductions.totalDeductions,
   taxable_income |-> emp.gross_salary * 12,
   tax_slab |-> deductions.taxSlab,
   is_filer |-> emp.tax_filing_status = "filer",
   status |-> "generated"]

\* The loop body's computation for employee row emp: the deductions are
\* calculated on the structure's gross, the overtime pay is added after.
PayslipFor(id, run, e, workingDays, emp, attendanceSummary) ==
  CHOOSE row \in
    {PayslipValues(id, run, e, workingDays, emp, attendanceSummary,
                   deductions, overtimePay) :
       deductions \in
         {calculateAllDeductions(emp.gross_salary,
                                 emp.tax_filing_status = "filer",
                                 emp.loan_deduction, emp.other_deductions)},
       overtimePay \in
         {OvertimePay(attendanceSummary.overtimeHours, emp.gross_salary,
                      workingDays)}} : TRUE

\* The payslip row the loop body inserts for one employee.
PayslipRow(id, run, e, workingDays) ==
  CHOOSE row \in
    {PayslipFor(id, run, e, workingDays, emp, attendanceSummary) :
       emp \in {SalaryOf(e)},
       attendanceSummary \in {getEmployeeAttendance(e, run.month)}} : TRUE

RolledBackPayslips_kept(c) == (payslips \ tx[c].deleted) \cup tx[c].inserted

\* The committed payslips after ROLLBACK: the transaction's deletes and
\* inserts are dropped.
RolledBackPayslips(c) == payslips

RolledBackRuns_kept(c) ==
  {IF r.id = arg[c] /\ tx[c].status # "none"
   THEN [r EXCEPT !.status = tx[c].status] ELSE r : r \in payroll_runs}

\* The committed runs after ROLLBACK: the status flip is dropped.
RolledBackRuns(c) == payroll_runs

\* catch: ROLLBACK, then the error is rethrown.
Rollback(c, result) ==
  /\ payroll_runs' = RolledBackRuns(c)
  /\ payslips' = RolledBackPayslips(c)
  /\ Finish(c, result)

\* One pass of the loop: INSERT INTO payslips and add to the run totals.
ProcessInsert(c) ==
  /\ pc[c] = "p_insert"
  /\ \E e \in {tx[c].employees[tx[c].i]} :
     \E row \in {PayslipRow(FreshPayslipId(arg[c], e), RunById(arg[c]), e,
                               tx[c].workingDays)} :
         /\ ~MustWait(c, {<<"key", arg[c], e>>})
         /\ IF idx_payslips_unique(Visible(c), arg[c], e)
            THEN Rollback(c, "conflict")
            ELSE /\ tx' = [tx EXCEPT
                       ![c].inserted = @ \cup {row},
                       ![c].i = @ + 1,
                       ![c].totalGross = @ + row.gross_salary,
                       ![c].totalDeductions = @ + row.total_deductions,
                       ![c].totalTax = @ + row.income_tax,
                       ![c].totalNet = @ + row.net_salary]
                 /\ Goto(c, IF tx[c].i = Len(tx[c].employees)
                            THEN "p_commit" ELSE "p_insert")
                 /\ UNCHANGED <<payroll_runs, payslips, op, arg>>
  /\ UNCHANGED <<employees, salary_structures, updates>>

\* The run row after UPDATE payroll_runs SET status = 'completed',
\* total_employees = employees.length, the four sums, processed_at,
\* processed_by.
RunWrittenBy_eligible(c, r) ==
  [r EXCEPT !.status = "completed",
            !.total_employees = Cardinality(EligibleEmployees),
            !.total_gross_salary = tx[c].totalGross,
            !.total_deductions = tx[c].totalDeductions,
            !.total_tax = tx[c].totalTax,
            !.total_net_salary = tx[c].totalGross - tx[c].totalTax,
            !.processed_at = TRUE,
            !.processed_by = "admin"]

\* The run row after `UPDATE payroll_runs SET status = 'completed', totals`.
RunWrittenBy(c, r) ==
  [r EXCEPT !.status = "completed",
            !.total_employees = Len(tx[c].employees),
            !.total_gross_salary = tx[c].totalGross,
            !.total_deductions = tx[c].totalDeductions,
            !.total_tax = tx[c].totalTax,
            !.total_net_salary = tx[c].totalNet,
            !.processed_at = TRUE,
            !.processed_by = "admin"]

\* The committed tables after COMMIT of slot c's transaction: every write
\* becomes visible at once.
CommittedRuns(c) ==
  {IF r.id = arg[c] THEN RunWrittenBy(c, r) ELSE r : r \in payroll_runs}

CommittedPayslips(c) == (payslips \ tx[c].deleted) \cup tx[c].inserted

\* The totals UPDATE followed by COMMIT.
ProcessCommit(c) ==
  /\ pc[c] = "p_commit"
  /\ payroll_runs' = CommittedRuns(c)
  /\ payslips' = CommittedPayslips(c)
  /\ Finish(c, "ok")
  /\ UNCHANGED <<employees, salary_structures, updates>>

\* A statement of the transaction fails: catch, ROLLBACK, rethrow.
ProcessFails(c) ==
  /\ op[c] = "process"
  /\ pc[c] # "idle"
  /\ Rollback(c, "error")
  /\ UNCHANGED <<employees, salary_structures, updates>>

\* ---------------------------------------------------------- approvePayroll

ApproveGuard_any(status) == status \in {"completed", "draft"}

\* `status !== 'completed'` throws; the guard passes for completed only.
ApproveGuard(status) == status = "completed"

\* SELECT status (auto-committed statement), NotFound / BadRequest.
ApproveSelect(c, id) ==
  /\ FreeSlot(c)
  /\ UNCHANGED <<payroll_runs, payslips, employees, salary_structures, updates>>
  /\ IF ~RunExists(id)
     THEN /\ response' = [op |-> "approve", result |-> "NotFound", at |-> "select"]
          /\ UNCHANGED <<op, pc, arg, tx>>
     ELSE IF ~ApproveGuard(RunById(id).status)
     THEN /\ response' = [op |-> "approve", result |-> "BadRequest", at |-> "select"]
          /\ UNCHANGED <<op, pc, arg, tx>>
     ELSE /\ op' = [op EXCEPT ![c] = "approve"]
          /\ arg' = [arg EXCEPT ![c] = id]
          /\ Goto(c, "a_run")
          /\ UNCHANGED tx

\* UPDATE payroll_runs SET status = 'approved', approved_by, approved_at
\* WHERE id = $2 (auto-committed; waits for the run's row lock).
ApproveRun(c) ==
  /\ pc[c] = "a_run"
  /\ ~MustWait(c, {<<"run", arg[c]>>})
  /\ payroll_runs' = {IF r.id = arg[c]
                      THEN [r EXCEPT !.status = "approved",
                                     !.approved_by = "admin",
                                     !.approved_at = TRUE]
                      ELSE r : r \in payroll_runs}
  /\ Goto(c, "a_slips")
  /\ UNCHANGED <<payslips, employees, salary_structures, updates, op, arg, tx>>

ApprovedSlips_all(ids) == {[p EXCEPT !.status = "approved"] : p \in payslips}

\* payslips after UPDATE payslips SET status = 'approved' on the rows `ids`.
ApprovedSlips(ids) ==
  {IF p.id \in ids THEN [p EXCEPT !.status = "approved"] ELSE p : p \in payslips}

\* UPDATE payslips SET status = 'approved' WHERE payroll_run_id = $2
\* (auto-committed).  The statement's snapshot is taken when it starts; it
\* waits for rows an open transaction has deleted.
ApproveSlips(c) ==
  /\ pc[c] = "a_slips"
  /\ LET target == {p.id : p \in PayslipsOfRun(payslips, arg[c])}
     IN  IF MustWait(c, {<<"payslip", id>> : id \in target})
         THEN /\ tx' = [tx EXCEPT ![c].target = target]
              /\ Goto(c, "a_wait")
              /\ UNCHANGED <<payslips, op, arg>>
         ELSE /\ payslips' = ApprovedSlips(target)
              /\ Finish(c, "ok")
  /\ UNCHANGED <<payroll_runs, employees, salary_structures, updates>>

\* The waiting UPDATE goes on once the other transaction has ended: it
\* updates the rows of its snapshot that still exist.
ApproveSlipsResume(c) ==
  /\ pc[c] = "a_wait"
  /\ ~MustWait(c, {<<"payslip", id>> : id \in tx[c].target})
  /\ payslips' = ApprovedSlips(tx[c].target)
  /\ Finish(c, "ok")
  /\ UNCHANGED <<payroll_runs, employees, salary_structures, updates>>

\* One of approvePayroll's two UPDATE statements fails: the error is thrown
\* to the caller; what an earlier statement committed stays.
ApproveFails(c) ==
  /\ op[c] = "approve"
  /\ pc[c] # "idle"
  /\ Finish(c, "error")
  /\ UNCHANGED <<payroll_runs, payslips, employees, salary_structures, updates>>

\* createPayrollRun's INSERT fails for another reason than the index.
CreateFails(c) ==
  /\ op[c] = "create"
  /\ pc[c] # "idle"
  /\ Finish(c, "error")
  /\ UNCHANGED <<payroll_runs, payslips, employees, salary_structures, updates>>

\* ------------------------------------------ employee.service.js (collaborator)

\* updateEmployee with a status field: UPDATE employees SET status = $1.
UpdateEmployee(e, s) ==
  /\ employees[e] # s
  /\ employees' = [employees EXCEPT ![e] = s]
  /\ updates < MaxEmployeeUpdates
  /\ updates' = updates + 1
  /\ response' = NoResponse
  /\ UNCHANGED <<payroll_runs, payslips, salary_structures, op, pc, arg, tx>>

\* deleteEmployee: UPDATE employees SET status = 'terminated'.
DeleteEmployee(e) ==
  /\ employees[e] # "terminated"
  /\ employees' = [employees EXCEPT ![e] = "terminated"]
  /\ updates < MaxEmployeeUpdates
  /\ updates' = updates + 1
  /\ response' = NoResponse
  /\ UNCHANGED <<payroll_runs, payslips, salary_structures, op, pc, arg, tx>>

\* --------------------------------------------------------------- behaviours

Next ==
  \/ \E c \in Calls, k \in Periods : CreateSelect(c, k)
  \/ \E c \in Calls : CreateInsert(c)
  \/ \E c \in Calls : CreateFails(c)
  \/ \E c \in Calls, id \in RunIds : ProcessSelect(c, id)
  \/ \E c \in Calls : ProcessFlip(c)
  \/ \E c \in Calls : ProcessDelete(c)
  \/ \E c \in Calls : ProcessInsert(c)
  \/ \E c \in Calls : ProcessCommit(c)
  \/ \E c \in Calls : ProcessFails(c)
  \/ \E c \in Calls, id \in RunIds : ApproveSelect(c, id)
  \/ \E c \in Calls : ApproveRun(c)
  \/ \E c \in Calls : ApproveSlips(c)
  \/ \E c \in Calls : ApproveSlipsResume(c)
  \/ \E c \in Calls : ApproveFails(c)
  \/ \E e \in Employees, s \in EmployeeStatuses : UpdateEmployee(e, s)
  \/ \E e \in Employees : DeleteEmployee(e)

\* Concurrent requests: every interleaving of the calls' statements.
Spec == Init /\ [][Next]_vars

\* No other call is in progress.
Quiet(c) == \A d \in Calls \ {c} : pc[d] = "idle"

\* Requests that do not overlap in time: a call runs to its end before the
\* next one starts (approvePayroll's UPDATE then never has to wait).
NextSeq ==
  \/ \E c \in Calls, k \in SeqPeriods : Quiet(c) /\ CreateSelect(c, k)
  \/ \E c \in Calls : Quiet(c) /\ CreateInsert(c)
  \/ \E c \in Calls : Quiet(c) /\ CreateFails(c)
  \/ \E c \in Calls, id \in SeqPeriods : Quiet(c) /\ ProcessSelect(c, id)
  \/ \E c \in Calls : Quiet(c) /\ ProcessFlip(c)
  \/ \E c \in Calls : Quiet(c) /\ ProcessDelete(c)
  \/ \E c \in Calls : Quiet(c) /\ ProcessInsert(c)
  \/ \E c \in Calls : Quiet(c) /\ ProcessCommit(c)
  \/ \E c \in Calls : Quiet(c) /\ ProcessFails(c)
  \/ \E c \in Calls, id \in SeqPeriods : Quiet(c) /\ ApproveSelect(c, id)
  \/ \E c \in Calls : Quiet(c) /\ ApproveRun(c)
  \/ \E c \in Calls : Quiet(c) /\ ApproveSlips(c)
  \/ \E c \in Calls : Quiet(c) /\ ApproveFails(c)
  \/ \E e \in Employees, s \in EmployeeStatuses : UpdateEmployee(e, s)
  \/ \E e \in Employees : DeleteEmployee(e)

SeqSpec == Init /\ [][NextSeq]_vars

\* No other processPayroll call is in progress.
ProcessAlone(c) == \A d \in Calls \ {c} : op[d] # "process"

\* processPayroll calls that do not overlap one another in time; the other
\* calls interleave with them freely.  (approvePayroll's second UPDATE then
\* never has to wait: no transaction is open once a run is 'completed'.)
NextOneProcess ==
  \/ \E c \in Calls, k \in Periods : CreateSelect(c, k)
  \/ \E c \in Calls : CreateInsert(c)
  \/ \E c \in Calls : CreateFails(c)
  \/ \E c \in Calls, id \in RunIds : ProcessAlone(c) /\ ProcessSelect(c, id)
  \/ \E c \in Calls : ProcessFlip(c)
  \/ \E c \in Calls : ProcessDelete(c)
  \/ \E c \in Calls : ProcessInsert(c)
  \/ \E c \in Calls : ProcessCommit(c)
  \/ \E c \in Calls : ProcessFails(c)
  \/ \E c \in Calls, id \in RunIds : ApproveSelect(c, id)
  \/ \E c \in Calls : ApproveRun(c)
  \/ \E c \in Calls : ApproveSlips(c)
  \/ \E c \in Calls : ApproveFails(c)
  \/ \E e \in Employees, s \in EmployeeStatuses : UpdateEmployee(e, s)
  \/ \E e \in Employees : DeleteEmployee(e)

OneProcessSpec == Init /\ [][NextOneProcess]_vars

\* The next statement of processPayroll call c completes.
ProcessProgress(c) ==
  ProcessFlip(c) \/ ProcessDelete(c) \/ ProcessInsert(c) \/ ProcessCommit(c)

\* Crash-free execution: the event loop resumes every processPayroll call
\* whose awaited statement can complete.  The status UPDATE waits for the
\* run's row lock and is resumed when the lock is released (strong fairness:
\* the lock may be taken again later).
Fairness == \A c \in Calls : SF_vars(ProcessProgress(c))

FairSpec == Spec /\ Fairness

\* A payroll_runs row as stored before the service starts: the run of the
\* first period with the given status, never processed (no totals, no
\* completion time).
StoredRun(status) ==
  [id |-> 1, month |-> Period(1).month, year |-> Period(1).year,
   status |-> status,
   total_employees |-> 0, total_gross_salary |-> 0, total_deductions |-> 0,
   total_tax |-> 0, total_net_salary |-> 0,
   processed_by |-> "admin", processed_at |-> FALSE,
   approved_by |-> "none", approved_at |-> FALSE]

\* The payslips stored with such a run: none for a draft; none, or a
\* leftover payslip of the first employee, for a run left in 'processing'.
StoredPayslips(status) ==
  IF status = "draft" THEN {{}}
  ELSE {{}} \cup
       {{PayslipRow(<<1, 1, 1>>, StoredRun(status), 1,
                    calculateWorkingDays(
                      Period(1).month, Period(1).year,
                      HolidaysIn(Period(1).month, Period(1).year),
                      utcOffset))} : utcOffset \in UtcOffsets}

\* The service starts on a database that holds no run, or one run that is
\* a draft or was left at 'processing'.
StoredInit ==
  /\ \/ payroll_runs = {} /\ payslips = {}
     \/ \E status \in {"draft", "processing"} :
          /\ payroll_runs = {StoredRun(status)}
          /\ payslips \in StoredPayslips(status)
  /\ employees = [e \in Employees |-> "active"]
  /\ salary_structures = {e \in Employees : e % 3 # 0}
  /\ updates = 0
  /\ op = [c \in Calls |-> "idle"]
  /\ pc = [c \in Calls |-> "idle"]
  /\ arg = [c \in Calls |-> 0]
  /\ tx = [c \in Calls |-> NoTx]
  /\ response = NoResponse

StoredSpec == StoredInit /\ [][Next]_vars

\* ------------------------------------------ the calculator called on its own

\* The upper ends of the slabs (the same in both tables), and 0.
SlabEdges ==
  {0} \cup {TAX_SLABS_FILER[k].max : k \in 1..(Len(TAX_SLABS_FILER) - 1)}

\* Annual incomes in paisa: each slab edge and the whole rupees above it,
\* each also with 48 paisa (12 times a monthly gross ending in .04), and
\* the incomes of the unit tests.
AnnualIncomes ==
  {100 * (b + d) + f : b \in SlabEdges, d \in 0..MaxOffset, f \in {0, 48}}
    \cup {100 * i : i \in {500000, 1000000, 2000000, 5000000}}

\* Monthly gross salaries in paisa: a twelfth of the first two slab edges,
\* the salary of the unit tests, the whole rupees above them, each also with
\* 4 paisa (DECIMAL(15,2) columns hold paisa).
MonthlyGrosses ==
  {100 * (m + d) + f :
     m \in {50000, 100000, 150000}, d \in 0..MaxOffset, f \in {0, 4}}

\* A call of an exported function: response.at holds its arguments.
CalcAnnualTax(incomeP, isFiler) ==
  /\ response' = [op |-> "calculateAnnualTax",
                  result |-> calculateAnnualTax(incomeP, isFiler),
                  at |-> <<incomeP, isFiler>>]
  /\ UNCHANGED <<payroll_runs, payslips, employees, salary_structures,
                 updates, op, pc, arg, tx>>

CalcMonthlyTax(monthlyGrossP, isFiler) ==
  /\ response' = [op |-> "calculateMonthlyTax",
                  result |-> calculateMonthlyTax(monthlyGrossP, isFiler),
                  at |-> <<monthlyGrossP, isFiler>>]
  /\ UNCHANGED <<payroll_runs, payslips, employees, salary_structures,
                 updates, op, pc, arg, tx>>

CalcEOBI(grossP) ==
  /\ response' = [op |-> "calculateEOBI",
                  result |-> calculateEOBI(grossP),
                  at |-> <<grossP>>]
  /\ UNCHANGED <<payroll_runs, payslips, employees, salary_structures,
                 updates, op, pc, arg, tx>>

NextCalc ==
  \/ \E incomeP \in AnnualIncomes, isFiler \in BOOLEAN :
       CalcAnnualTax(incomeP, isFiler)
  \/ \E monthlyGrossP \in MonthlyGrosses, isFiler \in BOOLEAN :
       CalcMonthlyTax(monthlyGrossP, isFiler)
  \/ \E grossP \in MonthlyGrosses : CalcEOBI(grossP)

CalcSpec == Init /\ [][NextCalc]_vars

\* Gross salaries in paisa around the SESSI wage limit of 25000, and the
\* salaries of the unit tests.
SESSIGrosses ==
  {100 * (m + d) + f : m \in {0, 20000, 24990}, d \in 0..MaxOffset, f \in {0, 4}}
    \cup {100 * g : g \in {100000, 150000}}

\* Gross salaries in paisa calculateAllDeductions is asked about.
DeductionGrosses ==
  {100 * (m + d) + f : m \in {150000}, d \in 0..MaxOffset, f \in {0, 4}}

\* The additionalDeductions argument: an object with any of the two
\* properties (amounts in paisa), the empty object when the argument is
\* omitted.
AdditionalDeductions ==
  UNION {[names -> {0, 500000}] :
           names \in SUBSET {"loanDeduction", "otherDeductions"}}

\* `const { loanDeduction = 0, otherDeductions = 0 } = additionalDeductions`.
PropertyOr0(additionalDeductions, name) ==
  IF name \in DOMAIN additionalDeductions
  THEN additionalDeductions[name] ELSE 0

CalcSESSI(grossP) ==
  /\ response' = [op |-> "calculateSESSI",
                  result |-> calculateSESSI(grossP),
                  at |-> <<grossP>>]
  /\ UNCHANGED <<payroll_runs, payslips, employees, salary_structures,
                 updates, op, pc, arg, tx>>

CalcAllDeductions(grossP, isFiler, additionalDeductions) ==
  /\ response' =
       [op |-> "calculateAllDeductions",
        result |->
          calculateAllDeductions(
            grossP, isFiler,
            PropertyOr0(additionalDeductions, "loanDeduction"),
            PropertyOr0(additionalDeductions, "otherDeductions")),
        at |-> <<grossP, isFiler, additionalDeductions>>]
  /\ UNCHANGED <<payroll_runs, payslips, employees, salary_structures,
                 updates, op, pc, arg, tx>>

NextDeductions ==
  \/ \E grossP \in SESSIGrosses : CalcSESSI(grossP)
  \/ \E grossP \in DeductionGrosses, isFiler \in BOOLEAN,
        additionalDeductions \in AdditionalDeductions :
       CalcAllDeductions(grossP, isFiler, additionalDeductions)

DeductionsSpec == Init /\ [][NextDeductions]_vars

\* ------------------------------------ calculateWorkingDays called on its own

\* The (month, year) arguments: every month of a common and of a leap year.
Months == 1..12
Years == {2023, 2024}

\* public_holidays contents, as days counted within the month: no date; one
\* date out of the day before the month, its first day, its tenth, its last
\* day and the day after it; or the first and the tenth together.
HolidaySets(month, year) ==
  {{}, {1, 10}}
    \cup {{h} : h \in {0, 1, 10, DaysInMonth(month, year),
                       DaysInMonth(month, year) + 1}}

CalcWorkingDays(month, year, holidays, utcOffset) ==
  /\ response' = [op |-> "calculateWorkingDays",
                  result |->
                    calculateWorkingDays(month, year, holidays, utcOffset),
                  at |-> <<month, year, holidays, utcOffset>>]
  /\ UNCHANGED <<payroll_runs, payslips, employees, salary_structures,
                 updates, op, pc, arg, tx>>

NextWorkingDays ==
  \E month \in Months, year \in Years, utcOffset \in UtcOffsets :
    \E holidays \in HolidaySets(month, year) :
      CalcWorkingDays(month, year, holidays, utcOffset)

WorkingDaysSpec == Init /\ [][NextWorkingDays]_vars

\* ------------------------------------------------------------------------
\* Properties of the payroll run lifecycle
\* ------------------------------------------------------------------------

\* C1: processPayroll proceeds only when the run's stored status is 'draft';
\* for every other status it answers BadRequest and leaves the run row and
\* the run's payslips exactly as they were.
C1_ProcessOnlyFromDraft ==
  [][/\ \A s \in RunStatuses : ProcessGuard(s) <=> s = "draft"
     /\ \A c \in Calls, id \in RunIds :
          (ProcessSelect(c, id) /\ RunExists(id)) =>
            IF RunById(id).status = "draft"
            THEN pc'[c] = "p_flip" /\ arg'[c] = id
            ELSE /\ response' = [op |-> "process", result |-> "BadRequest",
                                 at |-> "select"]
                 /\ payroll_runs' = payroll_runs
                 /\ payslips' = payslips
                 /\ pc'[c] = "idle"
                 /\ tx' = tx]_vars

\* A processPayroll call on a completed or approved run was just rejected.
C1_Witness ==
  /\ response = [op |-> "process", result |-> "BadRequest", at |-> "select"]
  /\ \E r \in payroll_runs : r.status \in {"completed", "approved"}

\* C2: approvePayroll proceeds only when the run's stored status is
\* 'completed'; for every other status it answers BadRequest and changes
\* neither the run row nor any payslip.
C2_ApproveOnlyFromCompleted ==
  [][/\ \A s \in RunStatuses : ApproveGuard(s) <=> s = "completed"
     /\ \A c \in Calls, id \in RunIds :
          (ApproveSelect(c, id) /\ RunExists(id)) =>
            IF RunById(id).status = "completed"
            THEN pc'[c] = "a_run" /\ arg'[c] = id
            ELSE /\ response' = [op |-> "approve", result |-> "BadRequest",
                                 at |-> "select"]
                 /\ payroll_runs' = payroll_runs
                 /\ payslips' = payslips
                 /\ pc'[c] = "idle"
                 /\ tx' = tx]_vars

\* An approvePayroll call on a draft run was just rejected.
C2_Witness ==
  /\ response = [op |-> "approve", result |-> "BadRequest", at |-> "select"]
  /\ \E r \in payroll_runs : r.status = "draft"

\* The lifecycle order of the run status.
LifecycleOrder ==
  {<<"draft", "processing">>, <<"processing", "completed">>,
   <<"completed", "approved">>, <<"draft", "cancelled">>}

\* The status of run id as call c's connection reads it: its own uncommitted
\* write if it made one, the committed status otherwise.
StatusIn(c, id) ==
  IF arg[c] = id /\ tx[c].status # "none" THEN tx[c].status
  ELSE RunById(id).status

\* C3: when calls do not overlap, every status a call writes is the
\* lifecycle successor of the status it overwrites, and every change of the
\* committed status is one lifecycle step or, at the COMMIT of processPayroll,
\* the two steps draft -> processing -> completed made inside the
\* transaction; no run disappears.
C3_LifecycleOrder ==
  [][\A id \in SeqPeriods : RunExists(id) =>
       /\ \E r \in payroll_runs' : r.id = id
       /\ \A c \in Calls :
            (arg'[c] = id /\ tx'[c].status \notin {"none", tx[c].status})
              => <<StatusIn(c, id), tx'[c].status>> \in LifecycleOrder
       /\ LET old == RunById(id).status
              new == (CHOOSE r \in payroll_runs' : r.id = id).status
          IN  old # new =>
                \/ <<old, new>> \in LifecycleOrder
                \/ \E c \in Calls :
                     /\ pc[c] = "p_commit" /\ arg[c] = id
                     /\ <<old, tx[c].status>> \in LifecycleOrder
                     /\ <<tx[c].status, new>> \in LifecycleOrder]_vars

\* A run went through the whole lifecycle: its approval just finished.
C3_Witness ==
  /\ response = [op |-> "approve", result |-> "ok", at |-> "a_slips"]
  /\ \E r \in payroll_runs : r.status = "approved" /\ r.total_employees > 0

\* Call c executes a statement in this step.
StepOf(c) == pc'[c] # pc[c] \/ tx'[c] # tx[c]

\* C4: processPayroll is all-or-nothing.  No statement of a processPayroll
\* call changes the committed runs or payslips except its COMMIT; a call that
\* ends otherwise ends in an error with the committed state as it was; the
\* COMMIT publishes the run's whole new payslip set at once (one payslip per
\* queried employee, status 'completed'), so the committed payslips of a run
\* are never a strict subset of its generated set.
C4_AllOrNothing ==
  [][/\ \A c \in Calls : (op[c] = "process" /\ StepOf(c)) =>
          IF pc[c] = "p_commit" /\ response'.result = "ok"
          THEN /\ PayslipsOfRun(payslips', arg[c]) = tx[c].inserted
               /\ {p.employee_id : p \in tx[c].inserted}
                    = Range(tx[c].employees)
               /\ \E r \in payroll_runs' :
                    r.id = arg[c] /\ r.status = "completed"
          ELSE /\ payroll_runs' = payroll_runs
               /\ payslips' = payslips
               /\ pc'[c] = "idle" =>
                    /\ response'.op = "process"
                    /\ response'.result \in {"error", "conflict"}
     /\ \A r \in payroll_runs' :
          Cardinality(PayslipsOfRun(payslips', r.id)) = r.total_employees]_vars

\* A processPayroll call failed after inserting all its payslips: the run is
\* still a draft without payslips or totals.
C4_Witness ==
  /\ response = [op |-> "process", result |-> "error", at |-> "p_commit"]
  /\ payslips = {}
  /\ \E r \in payroll_runs :
       r.status = "draft" /\ r.total_employees = 0 /\ r.processed_at = FALSE

\* C5: once the committed status of a run is 'approved', its status never
\* changes again and none of its payslips is deleted, re-inserted or has a
\* figure modified, under every interleaving of the calls.
C5_ApprovedIsFinal ==
  [][\A r \in payroll_runs : r.status = "approved" =>
       /\ \E q \in payroll_runs' : q.id = r.id /\ q.status = "approved"
       /\ \A p \in PayslipsOfRun(payslips, r.id) :
            \E q \in payslips' :
              q.id = p.id /\ [q EXCEPT !.status = p.status] = p
       /\ \A q \in PayslipsOfRun(payslips', r.id) :
            \E p \in payslips : p.id = q.id]_vars

\* ------------------------------------------------------------------------
\* Properties of the stored runs and payslips
\* ------------------------------------------------------------------------

C7_OneRunPerPeriod ==
  [][/\ \A r, q \in payroll_runs' :
          (r.month = q.month /\ r.year = q.year) => r = q
     /\ \A c \in Calls :
          (CreateInsert(c) /\ RunsOfPeriod(arg[c]) # {}) =>
            /\ payroll_runs' = payroll_runs
            /\ response' = [op |-> "create", result |-> "conflict",
                            at |-> "c_insert"]]_vars

\* Two overlapping createPayrollRun calls: one INSERT committed, the other
\* call just ended in the unique-index error.
C7_Witness ==
  /\ response = [op |-> "create", result |-> "conflict", at |-> "c_insert"]
  /\ \E k \in Periods : Cardinality(RunsOfPeriod(k)) = 1

\* C8: with calls that do not overlap, createPayrollRun for a period that
\* has a run returns it (BadRequest when it is not a draft) and changes no
\* row; for a period without a run its INSERT adds exactly one run, a
\* draft of that period; after either, the period has exactly one run.
C8_CreateIdempotent ==
  [][\A c \in Calls, k \in SeqPeriods :
       /\ (CreateSelect(c, k) /\ RunsOfPeriod(k) # {}) =>
            /\ payroll_runs' = payroll_runs
            /\ payslips' = payslips
            /\ pc'[c] = "idle"
            /\ Cardinality(RunsOfPeriod(k)) = 1
            /\ \E r \in RunsOfPeriod(k) :
                 response' = [op |-> "create", at |-> "select",
                              result |-> IF r.status = "draft"
                                         THEN "ok" ELSE "BadRequest"]
       /\ (CreateSelect(c, k) /\ RunsOfPeriod(k) = {}) =>
            /\ payroll_runs' = payroll_runs
            /\ pc'[c] = "c_insert"
       /\ (CreateInsert(c) /\ arg[c] = k) =>
            /\ response' = [op |-> "create", result |-> "ok",
                            at |-> "c_insert"]
            /\ payslips' = payslips
            /\ \E r \in payroll_runs' \ payroll_runs :
                 /\ payroll_runs' = payroll_runs \cup {r}
                 /\ r.status = "draft"
                 /\ r.month = Period(k).month /\ r.year = Period(k).year
            /\ Cardinality(RunsOfPeriod(k)') = 1]_vars

\* A second createPayrollRun for the period just returned the existing run.
C8_Witness ==
  /\ response = [op |-> "create", result |-> "ok", at |-> "select"]
  /\ Cardinality(payroll_runs) = 1
  /\ \A r \in payroll_runs : r.status = "draft"

\* The employees who have a payslip among rows.
PaidEmployees(rows) == {p.employee_id : p \in rows}

\* C9: a successful processPayroll leaves the run with exactly one payslip
\* for each employee its employee query returned, and that query returns
\* exactly the employees whose status is 'active' and who have a current
\* salary structure at that moment; no employee without a current salary
\* structure ever has a payslip, and while no employee's status has changed
\* the payslips of a processed run are those of all employees with one.
C9_PayslipsForActiveEmployees ==
  [][/\ \A c \in Calls : (pc[c] = "p_flip" /\ pc'[c] = "p_delete") =>
          /\ Range(tx'[c].employees)
               = {e \in Employees : /\ employees[e] = "active"
                                    /\ e \in salary_structures}
          /\ Len(tx'[c].employees) = Cardinality(Range(tx'[c].employees))
     /\ \A c \in Calls :
          (pc[c] = "p_commit" /\ pc'[c] = "idle" /\ response'.result = "ok") =>
            LET slips == PayslipsOfRun(payslips', arg[c])
            IN  /\ PaidEmployees(slips) = Range(tx[c].employees)
                /\ Cardinality(slips) = Len(tx[c].employees)
     /\ \A p \in payslips' : p.employee_id \in salary_structures
     /\ \A r \in payroll_runs' :
          (r.status \in {"completed", "approved"} /\ updates' = 0) =>
            PaidEmployees(PayslipsOfRun(payslips', r.id)) = salary_structures
    ]_vars

\* A run was just processed while an employee with a current salary
\* structure was not active: that employee has no payslip, another has.
C9_Witness ==
  /\ response = [op |-> "process", result |-> "ok", at |-> "p_commit"]
  /\ payslips # {}
  /\ \E e \in salary_structures :
       /\ employees[e] # "active"
       /\ e \notin PaidEmployees(payslips)

\* The sum of one money column over a set of payslips.
RECURSIVE SumOf(_, _)
SumOf(rows, column) ==
  IF rows = {} THEN 0
  ELSE LET p == CHOOSE q \in rows : TRUE
       IN  (CASE column = "gross_salary" -> p.gross_salary
              [] column = "total_deductions" -> p.total_deductions
              [] column = "income_tax" -> p.income_tax
              [] column = "net_salary" -> p.net_salary)
           + SumOf(rows \ {p}, column)

\* The run-level totals of a run row.
TotalsOf(r) ==
  <<r.total_employees, r.total_gross_salary, r.total_deductions,
    r.total_tax, r.total_net_salary>>

\* The totals of every completed or approved run agree with its payslips.
TotalsAgree ==
  \A r \in payroll_runs : r.status \in {"completed", "approved"} =>
    LET slips == PayslipsOfRun(payslips, r.id)
    IN  /\ r.total_employees = Cardinality(slips)
        /\ r.total_gross_salary = SumOf(slips, "gross_salary")
        /\ r.total_deductions = SumOf(slips, "total_deductions")
        /\ r.total_tax = SumOf(slips, "income_tax")
        /\ r.total_net_salary = SumOf(slips, "net_salary")
        /\ r.total_net_salary = r.total_gross_salary - r.total_deductions

\* C10: in every committed state the totals of a completed or approved run
\* agree with its payslips (count, gross, deductions, tax, net, and
\* net = gross - deductions), and only the COMMIT of a processPayroll call on
\* the run changes its totals.
C10_TotalsAgreeWithPayslips ==
  [][/\ TotalsAgree'
     /\ \A r \in payroll_runs, q \in payroll_runs' :
          (q.id = r.id /\ TotalsOf(q) # TotalsOf(r)) =>
            \E c \in Calls : /\ op[c] = "process" /\ arg[c] = r.id
                             /\ pc[c] = "p_commit" /\ pc'[c] = "idle"]_vars

\* An approved run whose payslips include overtime pay and deductions.
C10_Witness ==
  \E r \in payroll_runs :
    /\ r.status = "approved"
    /\ r.total_employees = 2
    /\ r.total_tax > 0
    /\ r.total_gross_salary > r.total_net_salary
    /\ \E p \in PayslipsOfRun(payslips, r.id) : p.overtime_pay > 0

\* ------------------------------------------------------------------------
\* Properties of approval, reprocessing and recovery
\* ------------------------------------------------------------------------

\* The payslips among rows that belong to other runs than id.
PayslipsOfOtherRuns(rows, id) == {p \in rows : p.payroll_run_id # id}

\* C11: a successful approvePayroll leaves its run with status 'approved',
\* approver and approval time set, and every payslip of the run with status
\* 'approved' and otherwise as it was; no statement of the call changes
\* another run or a payslip of another run.
C11_ApproveCascades ==
  [][\A c \in Calls : (op[c] = "approve" /\ StepOf(c)) =>
       /\ PayslipsOfOtherRuns(payslips', arg[c])
            = PayslipsOfOtherRuns(payslips, arg[c])
       /\ \A r \in payroll_runs : r.id # arg[c] => r \in payroll_runs'
       /\ (pc'[c] = "idle" /\ response'.result = "ok") =>
            /\ \E r \in payroll_runs' :
                 /\ r.id = arg[c]
                 /\ r.status = "approved"
                 /\ r.approved_by # "none"
                 /\ r.approved_at = TRUE
            /\ PayslipsOfRun(payslips', arg[c])
                 = {[p EXCEPT !.status = "approved"] :
                      p \in PayslipsOfRun(payslips, arg[c])}]_vars

\* C12: when processPayroll succeeds on a run that already has committed
\* payslips, the run's payslips afterwards are exactly the rows this call
\* inserted: one for each employee its query returned, computed from the
\* salary and attendance data; no earlier row of the run is left.
C12_ReprocessReplaces ==
  [][\A c \in Calls :
       (/\ pc[c] = "p_commit" /\ pc'[c] = "idle" /\ response'.result = "ok"
        /\ PayslipsOfRun(payslips, arg[c]) # {}) =>
         LET old == PayslipsOfRun(payslips, arg[c])
             new == PayslipsOfRun(payslips', arg[c])
         IN  /\ new = tx[c].inserted
             /\ new \cap old = {}
             /\ {p.id : p \in new} \cap {p.id : p \in old} = {}
             /\ PaidEmployees(new) = Range(tx[c].employees)
             /\ Cardinality(new) = Len(tx[c].employees)
             /\ \A p \in new :
                  p = PayslipRow(p.id, RunById(arg[c]), p.employee_id,
                                 tx[c].workingDays)]_vars

\* A run was processed again after an employee it had paid stopped being
\* active: the run has regenerated payslips and none for that employee.
C12_Witness ==
  /\ response = [op |-> "process", result |-> "ok", at |-> "p_commit"]
  /\ \E p \in payslips : p.id[3] = 2
  /\ \E e \in salary_structures :
       employees[e] # "active" /\ e \notin {p.employee_id : p \in payslips}

C14_CancelledFromDraft ==
  \A r \in payroll_runs :
    (r.status = "draft" /\ \A c \in Calls : pc[c] = "idle") =>
      ENABLED (Next /\ \E q \in payroll_runs' :
                         q.id = r.id /\ q.status = "cancelled")

\* C14 (amended): no operation writes 'cancelled' (or 'paid'): the committed
\* status of a run is only ever draft, completed or approved, and the only
\* status written inside a transaction before its COMMIT is 'processing'.
C14_NeverCancelled ==
  /\ \A r \in payroll_runs : r.status \in {"draft", "completed", "approved"}
  /\ \A c \in Calls : tx[c].status \in {"none", "processing"}

\* A draft run on which a processPayroll call has failed right after its
\* status flip: it is a draft again, not cancelled.
C14_Witness ==
  /\ response = [op |-> "process", result |-> "error", at |-> "p_delete"]
  /\ \E r \in payroll_runs : r.status = "draft"

\* C15 (as claimed): processPayroll on a run whose stored status is
\* 'processing' is accepted and goes on to regenerate the payslips.
C15_ProcessingRecovered ==
  [][\A c \in Calls, id \in RunIds :
       (/\ ProcessSelect(c, id) /\ RunExists(id)
        /\ RunById(id).status = "processing")
         => pc'[c] = "p_flip" /\ arg'[c] = id]_vars

\* C15 (amended): processPayroll on a run whose stored status is
\* 'processing' is rejected with BadRequest and changes nothing; no
\* operation changes such a run or its payslips, so it stays 'processing'.
C15_ProcessingRejected ==
  [][/\ \A c \in Calls, id \in RunIds :
          (/\ ProcessSelect(c, id) /\ RunExists(id)
           /\ RunById(id).status = "processing") =>
            /\ response' = [op |-> "process", result |-> "BadRequest",
                            at |-> "select"]
            /\ pc'[c] = "idle"
            /\ tx' = tx
     /\ \A r \in payroll_runs : r.status = "processing" =>
          /\ r \in payroll_runs'
          /\ PayslipsOfRun(payslips', r.id) = PayslipsOfRun(payslips, r.id)
    ]_vars

\* processPayroll was just rejected on a run stored as 'processing' that
\* still has a leftover payslip.
C15_Witness ==
  /\ response = [op |-> "process", result |-> "BadRequest", at |-> "select"]
  /\ \E r \in payroll_runs :
       r.status = "processing" /\ PayslipsOfRun(payslips, r.id) # {}


\* ------------------------------------------------------------------------
\* C16: for every annual income above 600000 rupees the filer's annualTax is
\* at most the non-filer's on the same income, and for every income of at
\* most 600000 rupees both are 0.
\* ------------------------------------------------------------------------
C16_NonFilerNeverCheaper ==
  response.op = "calculateAnnualTax" =>
    LET incomeP == response.at[1]
        other == calculateAnnualTax(incomeP, ~response.at[2]).annualTax
        filerTax ==
          IF response.at[2] THEN response.result.annualTax ELSE other
        nonFilerTax ==
          IF response.at[2] THEN other ELSE response.result.annualTax
    IN  /\ incomeP > 60000000 => filerTax <= nonFilerTax
        /\ incomeP <= 60000000 => filerTax = 0 /\ nonFilerTax = 0

\* A non-filer was charged 126500 on 2,000,000, more than the filer's 115000.
C16_Witness ==
  /\ response.op = "calculateAnnualTax"
  /\ response.at = <<200000000, FALSE>>
  /\ response.result.annualTax = 126500
  /\ calculateAnnualTax(200000000, TRUE).annualTax = 115000


\* ------------------------------------------------------------------------
\* C17: for every whole-number annual income and filer flag,
\* calculateAnnualTax selects the one bracket with min <= income <= max and
\* returns annualTax = 0 when its rate is zero, otherwise
\* round(fixed + (income - min + 1) * rate / 100); annualTax(600000, any) = 0,
\* annualTax(600001, filer) = 0, annualTax(1000000, filer) = 10000,
\* annualTax(1200000, filer) = 15000, annualTax(2000000, filer) = 115000 and
\* annualTax(5000000, filer) = 927500.
\* ------------------------------------------------------------------------

\* The brackets of a table whose range holds a whole-rupee income.
BracketsOf(income, slabs) ==
  {k \in 1..Len(slabs) :
     /\ slabs[k].min <= income
     /\ (slabs[k].max = -1 \/ income <= slabs[k].max)}

\* n is fixed + (income - min + 1) * rate / 100 rounded to the nearest whole
\* rupee, halves upward.
IsBracketFormula(n, income, slab) ==
  /\ 400 * (n - slab.fixed) - 200 <= (income - slab.min + 1) * slab.rate4
  /\ (income - slab.min + 1) * slab.rate4 < 400 * (n - slab.fixed) + 200

\* The named incomes (paisa), filer flags and taxes.
BracketExamples ==
  { <<60000000, TRUE, 0>>, <<60000000, FALSE, 0>>, <<60000100, TRUE, 0>>,
    <<100000000, TRUE, 10000>>, <<120000000, TRUE, 15000>>,
    <<200000000, TRUE, 115000>>, <<500000000, TRUE, 927500>> }

C17_BracketFormula ==
  (response.op = "calculateAnnualTax" /\ response.at[1] % 100 = 0) =>
    LET income == response.at[1] \div 100
        slabs == IF response.at[2] THEN TAX_SLABS_FILER
                                   ELSE TAX_SLABS_NON_FILER
        k == response.result.slab
    IN  /\ BracketsOf(income, slabs) = {k}
        /\ IF slabs[k].rate4 = 0
           THEN response.result.annualTax = 0
           ELSE IsBracketFormula(response.result.annualTax, income, slabs[k])
        /\ \A e \in BracketExamples :
             response.at = <<e[1], e[2]>> => response.result.annualTax = e[3]

\* A filer earning 5,000,000 was charged 927500 in the open-ended bracket.
C17_Witness ==
  /\ response.op = "calculateAnnualTax"
  /\ response.at = <<500000000, TRUE>>
  /\ response.result.annualTax = 927500
  /\ response.result.slab = Len(TAX_SLABS_FILER)


\* ------------------------------------------------------------------------
\* C18: for every monthly gross g and filer flag f, the monthly tax of
\* calculateMonthlyTax(g, f) equals round(A / 12), A being the already
\* rounded annual tax round(tax(g * 12, f)): the annual figure is rounded
\* first, then divided by 12, then rounded again (g = 100000, filer:
\* A = 15000, monthly tax 1250).
\* As the code has it: the monthly tax is round(tax / 12) of the unrounded
\* annual tax; the rounded annual tax is returned beside it and is not what
\* is divided.
\* ------------------------------------------------------------------------

\* m is whole + num/40000 divided by 12 and rounded to the nearest whole
\* rupee, halves upward.
IsTwelfthRounded(m, whole, num) ==
  /\ 40000 * (12 * m - 6 - whole) <= num
  /\ num < 40000 * (12 * m + 6 - whole)

\* The claim as stated: the rounded annual figure is what is divided.
C18_MonthlyFromRoundedAnnual ==
  response.op = "calculateMonthlyTax" =>
    /\ IsTwelfthRounded(response.result.monthlyTax,
                        response.result.annualProjection, 0)
    /\ response.at = <<10000000, TRUE>> =>
         /\ response.result.annualProjection = 15000
         /\ response.result.monthlyTax = 1250

\* The claim as amended: the unrounded annual tax is what is divided.
C18_MonthlyFromUnroundedAnnual ==
  response.op = "calculateMonthlyTax" =>
    LET tax == RawTax(response.at[1] * 12, response.at[2])
    IN  /\ IsTwelfthRounded(response.result.monthlyTax, tax.whole, tax.num)
        /\ response.at = <<10000000, TRUE>> =>
             /\ response.result.annualProjection = 15000
             /\ response.result.monthlyTax = 1250

\* A filer on 50019 a month: annual tax 5.7 is returned as 6 and the monthly
\* tax is round(5.7 / 12) = 0, where round(6 / 12) is 1.
C18_Witness ==
  /\ response.op = "calculateMonthlyTax"
  /\ response.at = <<5001900, TRUE>>
  /\ response.result.annualProjection = 6
  /\ response.result.monthlyTax = 0


\* ------------------------------------------------------------------------
\* C19: in both bracket schedules the six ranges are contiguous,
\* non-overlapping and exhaustive from 0 upward: every non-negative annual
\* income the engine can pass to calculateAnnualTax (12 times a monthly gross
\* held with two decimal places, so possibly not a whole number) lies in
\* exactly one bracket, and the result's slab is never the 'Exempt' fallback.
\* ------------------------------------------------------------------------
C19_BracketAlwaysSelected ==
  LET incomeP == IF response.op = "calculateMonthlyTax"
                 THEN 12 * response.at[1] ELSE response.at[1]
      slabs == IF response.at[2] THEN TAX_SLABS_FILER ELSE TAX_SLABS_NON_FILER
  IN  (/\ response.op \in {"calculateAnnualTax", "calculateMonthlyTax"}
       /\ incomeP % 12 = 0) =>
        /\ Cardinality({k \in 1..Len(slabs) : InSlab(incomeP, slabs[k])}) = 1
        /\ response.result.slab # 0


\* ------------------------------------------------------------------------
\* C20: for every gross salary the contribution computed by calculateEOBI
\* totals 0.75 % of gross, of which the employee share is 0.15 % of gross and
\* the employer share is the residual (total minus employee share), not a
\* further independent 0.75 %: employer + employee = round(0.0075 * gross).
\* As the code has it: the employer share is itself round(0.0075 * gross),
\* the employee share round(0.0015 * gross), and the total is their sum.
\* ------------------------------------------------------------------------

\* n is permille10/10000 of a gross in paisa, in rupees, rounded to the
\* nearest whole rupee, halves upward.
IsShareOf(n, grossP, permille10) ==
  /\ 1000000 * n - 500000 <= permille10 * grossP
  /\ permille10 * grossP < 1000000 * n + 500000

\* The claim as stated: both shares together are 0.75 % of gross.
C20_EmployerIsResidual ==
  response.op = "calculateEOBI" =>
    /\ IsShareOf(response.result.employee, response.at[1], 15)
    /\ IsShareOf(response.result.employer + response.result.employee,
                 response.at[1], 75)
    /\ response.result.total
         = response.result.employer + response.result.employee

\* The claim as amended: the employer share alone is 0.75 % of gross.
C20_EmployerIsIndependent ==
  response.op = "calculateEOBI" =>
    /\ IsShareOf(response.result.employee, response.at[1], 15)
    /\ IsShareOf(response.result.employer, response.at[1], 75)
    /\ response.result.total
         = response.result.employer + response.result.employee

\* On a gross of 100000: employer 750, employee 150, total 900.
C20_Witness ==
  /\ response.op = "calculateEOBI"
  /\ response.at = <<10000000>>
  /\ response.result = [employer |-> 750, employee |-> 150, total |-> 900]


\* ------------------------------------------------------------------------
\* C21: for every gross salary g >= 0, calculateSESSI returns
\* employer = 0.0075 * min(g, 25000) rounded half up, employee = 0 and
\* total = employer; the employer amount is 188 for every g >= 25000 and 150
\* for g = 20000, and the contribution adds nothing to an employee's total
\* deductions.
\* ------------------------------------------------------------------------
C21_SESSICappedEmployerOnly ==
  /\ response.op = "calculateSESSI" =>
       LET grossP == response.at[1]
       IN  /\ IsShareOf(response.result.employer,
                        IF grossP < 2500000 THEN grossP ELSE 2500000, 75)
           /\ response.result.employee = 0
           /\ response.result.total = response.result.employer
           /\ grossP >= 2500000 => response.result.employer = 188
           /\ grossP = 2000000 => response.result.employer = 150
  /\ response.op = "calculateAllDeductions" =>
       /\ response.result.sessi = 0
       /\ response.result.totalDeductions
            = response.result.incomeTax + response.result.eobi
                + response.result.loanDeduction
                + response.result.otherDeductions

\* On a gross of 100000 the employer pays 188 and the employee nothing.
C21_Witness ==
  /\ response.op = "calculateSESSI"
  /\ response.at = <<10000000>>
  /\ response.result = [employer |-> 188, employee |-> 0, total |-> 188]


\* ------------------------------------------------------------------------
\* C22: for every non-negative gross, filer flag and non-negative
\* loanDeduction / otherDeductions (each 0 when omitted),
\* calculateAllDeductions returns totalDeductions = incomeTax + the employee
\* share of EOBI + loanDeduction + otherDeductions and
\* netSalary = gross - totalDeductions, and echoes the two supplemental
\* deductions unchanged.  (The function has no throwing statement for such
\* inputs: CalcAllDeductions has no guard.)
\* ------------------------------------------------------------------------
C22_DeductionsCompose ==
  response.op = "calculateAllDeductions" =>
       LET grossP == response.at[1]
           given == response.at[3]
           loan == IF "loanDeduction" \in DOMAIN given
                   THEN given.loanDeduction ELSE 0
           other == IF "otherDeductions" \in DOMAIN given
                    THEN given.otherDeductions ELSE 0
           r == response.result
       IN  /\ r.incomeTax
                = 100 * calculateMonthlyTax(grossP, response.at[2]).monthlyTax
           /\ r.eobi = 100 * calculateEOBI(grossP).employee
           /\ r.loanDeduction = loan
           /\ r.otherDeductions = other
           /\ r.totalDeductions = r.incomeTax + r.eobi + loan + other
           /\ r.netSalary = grossP - r.totalDeductions

\* A filer on 150000 with a loan deduction of 5000 and the other deduction
\* omitted: 5000 and 0 are echoed and are part of the total.
C22_Witness ==
  /\ response.op = "calculateAllDeductions"
  /\ response.at = <<15000000, TRUE, [loanDeduction |-> 500000]>>
  /\ response.result.loanDeduction = 500000
  /\ response.result.otherDeductions = 0
  /\ response.result.totalDeductions
       = response.result.incomeTax + response.result.eobi + 500000
  /\ response.result.incomeTax > 0


\* ------------------------------------------------------------------------
\* C23: for every worker processed, the payslip's overtime_pay equals
\* round(overtimeHours * (grossSalary / (workingDays * 8)) * 1.5) and its
\* gross_salary the salary structure's gross plus that overtime pay; gross
\* 150000, 21 working days and 10 overtime hours give overtime pay 13393 and
\* final gross 163393, and with 0 overtime hours the payslip gross equals
\* the structure gross.
\* ------------------------------------------------------------------------

\* n rupees is hours * (gross / (workingDays * 8)) * 1.5 rounded to the
\* nearest whole rupee, halves upward (gross in paisa).
IsOvertimePay(n, hours, grossP, workingDays) ==
  /\ (2 * n - 1) * 800 * workingDays <= 3 * hours * grossP
  /\ 3 * hours * grossP < (2 * n + 1) * 800 * workingDays

\* Every payslip row written, committed or not yet.
WrittenPayslips == payslips \cup UNION {tx[c].inserted : c \in Calls}

C23_OvertimePay ==
  \A p \in WrittenPayslips :
    LET structure == SalaryOf(p.employee_id)
    IN  /\ p.overtime_pay % 100 = 0
        /\ IsOvertimePay(p.overtime_pay \div 100, p.overtime_hours,
                         structure.gross_salary, p.working_days)
        /\ p.gross_salary = structure.gross_salary + p.overtime_pay
        /\ (/\ structure.gross_salary = 15000000
            /\ p.working_days = 21
            /\ p.overtime_hours = 10) =>
             p.overtime_pay = 1339300 /\ p.gross_salary = 16339300
        /\ p.overtime_hours = 0 => p.gross_salary = structure.gross_salary

\* A committed payslip of a worker on 150000 with 10 overtime hours in a
\* month of 21 working days, and one of a worker without overtime.
C23_Witness ==
  /\ \E p \in payslips :
       /\ SalaryOf(p.employee_id).gross_salary = 15000000
       /\ p.working_days = 21 /\ p.overtime_hours = 10
       /\ p.overtime_pay = 1339300 /\ p.gross_salary = 16339300
  /\ \E p \in payslips :
       p.overtime_hours = 0 /\ p.gross_salary = 10000000


\* ------------------------------------------------------------------------
\* C24: for every (month, year) and every set of holiday dates,
\* calculateWorkingDays returns the number of calendar dates of that month
\* that are neither a Saturday or Sunday nor a holiday: it goes through the
\* month's actual dates, counts a holiday on a weekend once, ignores
\* holidays outside the month, and gives 30 - 8 - 1 = 21 for a 30-day month
\* with 8 weekend days and one weekday holiday.
\* ------------------------------------------------------------------------
C24_WorkingDaysCount ==
  response.op = "calculateWorkingDays" =>
    LET month == response.at[1]
        year == response.at[2]
        holidays == response.at[3]
    IN  /\ response.result
             = Cardinality({d \in 1..DaysInMonth(month, year) :
                              /\ GetDay(year, month, d) \notin {0, 6}
                              /\ d \notin holidays})
        /\ (month = 4 /\ year = 2024 /\ holidays \in {{10}, {30}}) =>
             response.result = 21


\* ------------------------------------------------------------------------
\* C25: for every monthly gross and filer flag, the annualProjection
\* returned by calculateMonthlyTax equals 12 times the monthlyTax it returns.
\* ------------------------------------------------------------------------
C25_ProjectionIsTwelveMonths ==
  response.op = "calculateMonthlyTax" =>
    response.result.annualProjection = 12 * response.result.monthlyTax


\* ------------------------------------------------------------------------
\* C26: the draft guard of processPayroll is a check-then-set without row
\* lock or compare-and-swap: two concurrent processPayroll calls on the same
\* draft run can both read 'draft', both pass the guard, and both go on to
\* write to the run (status flip, payslip delete, payslip inserts, totals
\* update), so that the run is processed twice.
\* As a property of every state: a call passes the guard whenever the
\* committed status is 'draft', whichever calls are already past the guard
\* on that run; and a call past the guard makes its status flip as soon as
\* no other transaction holds the run's row, whatever the committed status
\* has become.
\* ------------------------------------------------------------------------
PassesGuard(c, id) == ProcessSelect(c, id) /\ pc'[c] = "p_flip"

C26_GuardIsCheckThenSet ==
  /\ \A c \in Calls, id \in RunIds :
       (FreeSlot(c) /\ RunExists(id) /\ RunById(id).status = "draft")
         => ENABLED PassesGuard(c, id)
  /\ \A c \in Calls :
       (/\ op[c] = "process" /\ pc[c] = "p_flip"
        /\ ~MustWait(c, {<<"run", arg[c]>>}))
         => ENABLED ProcessFlip(c)

\* The second of two calls that both passed the guard is writing (it has
\* flipped the status and deleted the first call's payslips) to a run the
\* first call has already committed as 'completed' with its totals.
C26_Witness ==
  \E c \in Calls :
    /\ op[c] = "process" /\ pc[c] = "p_insert"
    /\ tx[c].status = "processing"
    /\ tx[c].deleted # {} /\ tx[c].inserted # {}
    /\ RunById(arg[c]).status = "completed"
    /\ RunById(arg[c]).total_employees > 0


\* ------------------------------------------------------------------------
\* C27: in processPayroll the deduction calculator is run on the gross after
\* overtime pay has been added: each payslip's income_tax, employee EOBI
\* share and taxable_income are those the calculator yields for the
\* payslip's stored gross_salary (structure gross + overtime pay), and
\* net_salary = gross_salary - total_deductions.
\* ------------------------------------------------------------------------
C27_DeductionsOnFinalGross ==
  \A p \in WrittenPayslips :
    /\ p.income_tax
         = 100 * calculateMonthlyTax(p.gross_salary, p.is_filer).monthlyTax
    /\ p.eobi_contribution = 100 * calculateEOBI(p.gross_salary).employee
    /\ p.taxable_income = 12 * p.gross_salary
    /\ p.net_salary = p.gross_salary - p.total_deductions


\* ------------------------------------------------------------------------
\* C28: in both schedules, for every bracket k after the first, the
\* bracket's fixed amount equals the tax the formula gives at the top of
\* bracket k-1; consequently annualTax is monotonically non-decreasing in
\* whole-number income for each filer flag, with no downward jump at any
\* bracket boundary.
\* ------------------------------------------------------------------------

\* fixed of bracket k is fixed + (max - min + 1) * rate / 100 of bracket k-1
\* (0 where that bracket's rate is zero).
FixedIsTaxBelow(slabs, k) ==
  IF slabs[k - 1].rate4 = 0
  THEN slabs[k].fixed = 0
  ELSE 400 * slabs[k].fixed
         = 400 * slabs[k - 1].fixed
             + (slabs[k - 1].max - slabs[k - 1].min + 1) * slabs[k - 1].rate4

C28_FixedAmountsAndMonotonic ==
  /\ \A slabs \in {TAX_SLABS_FILER, TAX_SLABS_NON_FILER} :
       \A k \in 2..Len(slabs) : FixedIsTaxBelow(slabs, k)
  /\ (/\ response.op = "calculateAnnualTax"
      /\ response.at[1] % 100 = 0
      /\ response.at[1] >= 100) =>
       response.result.annualTax
         >= calculateAnnualTax(response.at[1] - 100, response.at[2]).annualTax

\* The first rupee of the filer's third bracket: 15000.125 is returned as
\* 15000, the tax at the top of the second bracket.
C28_Witness ==
  /\ response.op = "calculateAnnualTax"
  /\ response.at = <<120000100, TRUE>>
  /\ response.result.slab = 3
  /\ response.result.annualTax = 15000
  /\ calculateAnnualTax(120000000, TRUE).annualTax = 15000


\* ------------------------------------------------------------------------
\* C29: approval is atomic with respect to its cascade: in every committed
\* state a run with status 'approved' has all of its payslips in status
\* 'approved', also between approvePayroll's two UPDATE statements, when the
\* second UPDATE fails after the first has committed, and when
\* approvePayroll interleaves with a processPayroll call on the same run.
\* ------------------------------------------------------------------------
C29_ApprovalAtomic ==
  \A r \in payroll_runs :
    r.status = "approved" =>
      \A p \in PayslipsOfRun(payslips, r.id) : p.status = "approved"

\* ------------------------------------------------------------------------
\* C30: when processPayroll calls on a run never overlap in time, every
\* committed state has no payslips for a run with status 'draft'; hence
\* whenever a call passes the draft guard its DELETE of previous payslips
\* removes zero rows, and a run that already has payslips is never
\* processed again.
\* ------------------------------------------------------------------------
C30_DraftHasNoPayslips ==
  /\ \A r \in payroll_runs :
       r.status = "draft" => PayslipsOfRun(payslips, r.id) = {}
  /\ \A c \in Calls :
       op[c] = "process" =>
         /\ tx[c].deleted = {}
         /\ pc[c] = "p_delete" => DeletedRows(c) = {}

\* A call has passed the guard and run its DELETE, which removed nothing,
\* while another call is in progress.
C30_Witness ==
  \E c \in Calls :
    /\ op[c] = "process" /\ pc[c] = "p_insert"
    /\ tx[c].i = 1 /\ tx[c].deleted = {}
    /\ \E d \in Calls \ {c} : op[d] # "idle"

=============================================================================
